---- MODULE Spec2Model ----
(***************************************************************************)
(* A model of packages/near-sdk-js/src/utils.ts: the tagged-value          *)
(* serializer and deserializer, the options-driven retrieval facade, the   *)
(* account-id validator and assert.                                        *)
(*                                                                         *)
(* Representation.  A JavaScript string is a sequence of one-character     *)
(* strings, a Uint8Array a sequence of numbers in 0..255.  A JavaScript    *)
(* value is a tuple whose first component is its kind:                     *)
(*   <<"undefined">>  <<"null">>  <<"bool", b>>  <<"num", n>>  <<"nan">>   *)
(*   <<"str", chars>>  <<"arr", elements>>  <<"map", <<key, value>> ...>>  *)
(*   <<"bigint", negative, digits>>   an arbitrary-precision integer       *)
(*   <<"date", t>>     a Date of time value t (milliseconds)               *)
(*   <<"date">>        a Date whose time value the model does not track:   *)
(*                     Invalid Date, or the result of parsing a string     *)
(*                     outside the ISO window modelled by ParseDate        *)
(*   <<"instance", d>> what a caller's reconstructor returns for d         *)
(* An object keeps its own keys in insertion order, as a sequence of       *)
(* <<key, value>> pairs with distinct keys (no key of the model is an      *)
(* array index, which JavaScript would order first).                       *)
(* The result of a call is <<"return", v>> or <<"throw", error, message>>. *)
(***************************************************************************)
EXTENDS Integers, Sequences, FiniteSets, TLC

VARIABLES call, argValue, argBytes, argOptions, argText, pc, result, invoked

vars == <<call, argValue, argBytes, argOptions, argText, pc, result, invoked>>

----------------------------------------------------------------------------
(* Characters and the host's UTF-8 codec, on printable ASCII.               *)

AsciiChars ==
  << " ", "!", "\"", "#", "$", "%", "&", "'", "(", ")", "*", "+", ",", "-", ".", "/",
     "0", "1", "2", "3", "4", "5", "6", "7", "8", "9", ":", ";", "<", "=", ">", "?",
     "@", "A", "B", "C", "D", "E", "F", "G", "H", "I", "J", "K", "L", "M", "N", "O",
     "P", "Q", "R", "S", "T", "U", "V", "W", "X", "Y", "Z", "[", "\\", "]", "^", "_",
     "a", "b", "c", "d", "e", "f", "g", "h", "i", "j", "k", "l", "m", "n", "o",
     "p", "q", "r", "s", "t", "u", "v", "w", "x", "y", "z", "{", "|", "}", "~" >>

\* The table runs from U+0020 to U+007E without U+0060 (the grave accent).
CodeAt(i) == IF i <= 64 THEN i + 31 ELSE i + 32

IndexOf(code) == IF code <= 95 THEN code - 31 ELSE code - 32

CharSet == {AsciiChars[i] : i \in 1..Len(AsciiChars)}

CodeOf == [ch \in CharSet |->
             CodeAt(CHOOSE i \in 1..Len(AsciiChars) : AsciiChars[i] = ch)]

\* env.utf8_string_to_uint8array on ASCII text: one byte per character.
encode(s) == [i \in 1..Len(s) |-> CodeOf[s[i]]]

\* env.uint8array_to_utf8_string on ASCII bytes.
decode(a) == [i \in 1..Len(a) |-> AsciiChars[IndexOf(a[i])]]

Digits == <<"0", "1", "2", "3", "4", "5", "6", "7", "8", "9">>

DigitChars == {Digits[i] : i \in 1..10}

DigitVal(ch) == (CHOOSE i \in 1..10 : Digits[i] = ch) - 1

LowerChars == {AsciiChars[i] : i \in 65..90}

UpperChars == {AsciiChars[i] : i \in 34..59}

\* Number::toString of a non-negative integer.
RECURSIVE NatToChars(_)
NatToChars(n) ==
  IF n < 10 THEN <<Digits[n + 1]>>
  ELSE NatToChars(n \div 10) \o <<Digits[(n % 10) + 1]>>

\* Number::toString of an integer.
IntToChars(n) == IF n < 0 THEN <<"-">> \o NatToChars(0 - n) ELSE NatToChars(n)

\* The value of a digit string in the given base (digits are 0-9, a-z, A-Z).
DigitValIn(ch) ==
  IF ch \in DigitChars THEN DigitVal(ch)
  ELSE IF ch \in LowerChars
       THEN (CHOOSE i \in 65..90 : AsciiChars[i] = ch) - 65 + 10
       ELSE IF ch \in UpperChars
            THEN (CHOOSE i \in 34..59 : AsciiChars[i] = ch) - 34 + 10
            ELSE 99

RECURSIVE CharsToNat(_, _)
CharsToNat(s, base) ==
  IF Len(s) = 0 THEN 0
  ELSE CharsToNat(SubSeq(s, 1, Len(s) - 1), base) * base + DigitValIn(s[Len(s)])

AllDigitsIn(s, base) == \A i \in 1..Len(s) : DigitValIn(s[i]) < base

\* A fixed-width decimal field, as in Date.prototype.toISOString.
RECURSIVE Pad(_, _)
Pad(n, width) ==
  IF width = 0 THEN <<>>
  ELSE Pad(n \div 10, width - 1) \o <<Digits[(n % 10) + 1]>>

----------------------------------------------------------------------------
(* JavaScript values.                                                       *)

Undefined == <<"undefined">>
Null == <<"null">>
Bool(b) == <<"bool", b>>
Num(n) == <<"num", n>>
NaN == <<"nan">>
Str(s) == <<"str", s>>
Arr(elems) == <<"arr", elems>>
Map(pairs) == <<"map", pairs>>
BigIntOf(negative, digits) == <<"bigint", negative, digits>>
DateOf(t) == <<"date", t>>
UntrackedDate == <<"date">>
Instance(d) == <<"instance", d>>

Kind(v) == v[1]

Return(v) == <<"return", v>>
Throw(error, message) == <<"throw", error, message>>

\* An outcome ECMAScript leaves to the implementation, or one that depends
\* on a time value the model does not track.
Unspecified == <<"unspecified">>

KeySet(pairs) == {pairs[i][1] : i \in 1..Len(pairs)}
\* Reading a property; a missing one reads as undefined.
Get(pairs, key) ==
  IF key \in KeySet(pairs)
  THEN pairs[CHOOSE i \in 1..Len(pairs) : pairs[i][1] = key][2]
  ELSE <<"undefined">>

\* ToBoolean.
Truthy(v) ==
  CASE Kind(v) \in {"undefined", "null", "nan"} -> FALSE
    [] Kind(v) = "bool" -> v[2]
    [] Kind(v) = "num" -> v[2] # 0
    [] Kind(v) = "str" -> Len(v[2]) > 0
    [] Kind(v) = "bigint" -> v[3] # <<0>>
    [] OTHER -> TRUE

----------------------------------------------------------------------------
(* Module constants.                                                        *)

VALUE_KEY == <<"v", "a", "l", "u", "e">>
TYPE_KEY == <<"t", "y", "p", "e", "I", "n", "f", "o">>
BIGINT == <<"b", "i", "g", "i", "n", "t">>
DATE == <<"d", "a", "t", "e">>

NullText == <<"n", "u", "l", "l">>
TrueText == <<"t", "r", "u", "e">>
FalseText == <<"f", "a", "l", "s", "e">>

----------------------------------------------------------------------------
(* Conversions of the extended types.                                       *)

\* BigInt.prototype.toString: the digits are numbers 0..9, most significant
\* first, with no leading zero; zero is <<0>> and is never negative.
BigIntToString(b) ==
  (IF b[2] THEN <<"-">> ELSE <<>>) \o [i \in 1..Len(b[3]) |-> Digits[b[3][i] + 1]]

RECURSIVE StripZeros(_)
StripZeros(ds) ==
  IF Len(ds) > 1 /\ ds[1] = 0 THEN StripZeros(Tail(ds)) ELSE ds

NormalBigInt(negative, ds) ==
  LET m == StripZeros(ds)
  IN  BigIntOf(negative /\ m # <<0>>, m)

RECURSIVE NatToDigits(_)
NatToDigits(n) ==
  IF n < 10 THEN <<n>> ELSE NatToDigits(n \div 10) \o <<n % 10>>

\* Number -> BigInt, for an integral Number.
NumberToBigInt(n) == BigIntOf(n < 0, NatToDigits(IF n < 0 THEN 0 - n ELSE n))

\* Date.prototype.toISOString for a time value within the first day of the
\* epoch, 0 <= t < 86400000.
ToISOString(t) ==
  <<"1", "9", "7", "0", "-", "0", "1", "-", "0", "1", "T">>
    \o Pad(t \div 3600000, 2) \o <<":">>
    \o Pad((t \div 60000) % 60, 2) \o <<":">>
    \o Pad((t \div 1000) % 60, 2) \o <<".">>
    \o Pad(t % 1000, 3) \o <<"Z">>

\* Date.prototype.toJSON: toISOString, or null for a time value that is NaN.
ToJSON(v) ==
  IF Kind(v) = "date"
  THEN IF v = UntrackedDate THEN Null ELSE Str(ToISOString(v[2]))
  ELSE v

----------------------------------------------------------------------------
(* serialize: JSON.stringify with the replacer of utils.ts.                 *)

\* A replacer that tags arbitrary-precision integers only.
Replacer_untaggedDate(raw, v) ==
  IF Kind(v) = "bigint"
  THEN Return(Map(<< <<VALUE_KEY, Str(BigIntToString(v))>>,
                     <<TYPE_KEY, Str(BIGINT)>> >>))
  ELSE Return(v)

\* The replacer, called with this[key] = raw and value = raw after toJSON.
Replacer(raw, v) ==
  IF Kind(v) = "bigint"
  THEN Return(Map(<< <<VALUE_KEY, Str(BigIntToString(v))>>,
                     <<TYPE_KEY, Str(BIGINT)>> >>))
  ELSE IF Kind(raw) = "date"
       THEN IF raw = UntrackedDate
            THEN Unspecified
            ELSE Return(Map(<< <<VALUE_KEY, Str(ToISOString(raw[2]))>>,
                               <<TYPE_KEY, Str(DATE)>> >>))
       ELSE Return(v)

\* QuoteJSONString, for strings without control characters.
RECURSIVE Escaped(_)
Escaped(s) ==
  IF Len(s) = 0 THEN <<>>
  ELSE (IF s[1] \in {"\"", "\\"} THEN <<"\\", s[1]>> ELSE <<s[1]>>)
         \o Escaped(Tail(s))

Quote(s) == <<"\"">> \o Escaped(s) \o <<"\"">>

Text(s) == [t |-> "text", s |-> s, e |-> <<>>]
NoText == [t |-> "undefined", s |-> <<>>, e |-> <<>>]
Thrown(e) == [t |-> "throw", s |-> <<>>, e |-> e]

RECURSIVE SerializeJSONProperty(_)
RECURSIVE SerializeJSONArray(_, _, _)
RECURSIVE SerializeJSONObject(_, _, _)

\* SerializeJSONProperty(state, key, holder) with raw = holder[key].
SerializeJSONProperty(raw) ==
  LET r == Replacer(raw, ToJSON(raw))
      v == r[2]
  IN  IF r[1] # "return" THEN Thrown(r)
      ELSE CASE Kind(v) = "null" -> Text(NullText)
             [] Kind(v) = "bool" -> Text(IF v[2] THEN TrueText ELSE FalseText)
             [] Kind(v) = "str" -> Text(Quote(v[2]))
             [] Kind(v) = "num" -> Text(IntToChars(v[2]))
             [] Kind(v) = "nan" -> Text(NullText)
             [] Kind(v) = "arr" -> SerializeJSONArray(v[2], 1, <<"[">>)
             [] Kind(v) = "map" -> SerializeJSONObject(v[2], 1, <<"{">>)
             [] Kind(v) = "bigint" -> Thrown(Throw("TypeError", "stringify"))
             [] OTHER -> NoText

\* The elements from index i on, appended to acc; undefined becomes null.
SerializeJSONArray(elems, i, acc) ==
  IF i > Len(elems) THEN Text(acc \o <<"]">>)
  ELSE LET p == SerializeJSONProperty(elems[i])
           sep == IF i > 1 THEN <<",">> ELSE <<>>
       IN  IF p.t = "throw" THEN p
           ELSE SerializeJSONArray(elems, i + 1,
                  acc \o sep \o (IF p.t = "undefined" THEN NullText ELSE p.s))

\* The properties from index i on, appended to acc; undefined is left out.
SerializeJSONObject(pairs, i, acc) ==
  IF i > Len(pairs) THEN Text(acc \o <<"}">>)
  ELSE LET p == SerializeJSONProperty(pairs[i][2])
           sep == IF Len(acc) > 1 THEN <<",">> ELSE <<>>
       IN  IF p.t = "throw" THEN p
           ELSE SerializeJSONObject(pairs, i + 1,
                  IF p.t = "undefined" THEN acc
                  ELSE acc \o sep \o Quote(pairs[i][1]) \o <<":">> \o p.s)

\* serialize(valueToSerialize), for a value JSON.stringify gives a text for.
serialize(valueToSerialize) ==
  LET p == SerializeJSONProperty(valueToSerialize)
  IN  IF p.t = "throw" THEN p.e ELSE Return(encode(p.s))

----------------------------------------------------------------------------
(* JSON.parse, on texts whose numbers are integer literals and whose        *)
(* strings use no escape other than \" \\ and \/ .                          *)

At(s, i) == IF i >= 1 /\ i <= Len(s) THEN s[i] ELSE ""

Parsed(v, i) == [ok |-> TRUE, v |-> v, i |-> i]
NoParse == [ok |-> FALSE, v |-> Null, i |-> 0]

RECURSIVE SkipWs(_, _)
SkipWs(s, i) == IF At(s, i) = " " THEN SkipWs(s, i + 1) ELSE i

Matches(s, i, word) ==
  /\ i + Len(word) - 1 <= Len(s)
  /\ SubSeq(s, i, i + Len(word) - 1) = word

\* The characters of a string literal from index i on, after its opening quote.
RECURSIVE ParseString(_, _, _)
ParseString(s, i, acc) ==
  IF At(s, i) = "" THEN NoParse
  ELSE IF s[i] = "\"" THEN Parsed(acc, i + 1)
  ELSE IF s[i] = "\\"
       THEN IF At(s, i + 1) \in {"\"", "\\", "/"}
            THEN ParseString(s, i + 2, Append(acc, s[i + 1]))
            ELSE NoParse
       ELSE ParseString(s, i + 1, Append(acc, s[i]))

RECURSIVE DigitsEnd(_, _)
DigitsEnd(s, i) == IF At(s, i) \in DigitChars THEN DigitsEnd(s, i + 1) ELSE i

\* An integer literal: -? (0 | [1-9][0-9]*).
ParseNumber(s, i) ==
  LET start == IF At(s, i) = "-" THEN i + 1 ELSE i
      stop == IF At(s, start) = "0" THEN start + 1 ELSE DigitsEnd(s, start)
      n == CharsToNat(SubSeq(s, start, stop - 1), 10)
  IN  IF stop = start THEN NoParse
      ELSE Parsed(Num(IF start > i THEN 0 - n ELSE n), stop)

\* CreateDataProperty on an object under construction: a repeated key keeps
\* its place and takes the later value.
Put(pairs, key, v) ==
  IF key \in KeySet(pairs)
  THEN [i \in 1..Len(pairs) |-> IF pairs[i][1] = key THEN <<key, v>> ELSE pairs[i]]
  ELSE Append(pairs, <<key, v>>)

RECURSIVE ParseValue(_, _)
RECURSIVE ParseElements(_, _, _)
RECURSIVE ParseMembers(_, _, _)

ParseValue(s, i0) ==
  LET i == SkipWs(s, i0)
      c == At(s, i)
  IN  CASE c = "{" ->
             IF At(s, SkipWs(s, i + 1)) = "}"
             THEN Parsed(Map(<<>>), SkipWs(s, i + 1) + 1)
             ELSE ParseMembers(s, i + 1, <<>>)
        [] c = "[" ->
             IF At(s, SkipWs(s, i + 1)) = "]"
             THEN Parsed(Arr(<<>>), SkipWs(s, i + 1) + 1)
             ELSE ParseElements(s, i + 1, <<>>)
        [] c = "\"" ->
             LET r == ParseString(s, i + 1, <<>>)
             IN  IF r.ok THEN Parsed(Str(r.v), r.i) ELSE NoParse
        [] c = "-" \/ c \in DigitChars -> ParseNumber(s, i)
        [] c = "t" -> IF Matches(s, i, TrueText) THEN Parsed(Bool(TRUE), i + 4) ELSE NoParse
        [] c = "f" -> IF Matches(s, i, FalseText) THEN Parsed(Bool(FALSE), i + 5) ELSE NoParse
        [] c = "n" -> IF Matches(s, i, NullText) THEN Parsed(Null, i + 4) ELSE NoParse
        [] OTHER -> NoParse

ParseElements(s, i, acc) ==
  LET r == ParseValue(s, i)
      j == SkipWs(s, r.i)
  IN  IF ~r.ok THEN NoParse
      ELSE IF At(s, j) = "," THEN ParseElements(s, j + 1, Append(acc, r.v))
      ELSE IF At(s, j) = "]" THEN Parsed(Arr(Append(acc, r.v)), j + 1)
      ELSE NoParse

ParseMembers(s, i, acc) ==
  LET j == SkipWs(s, i)
      k == IF At(s, j) = "\"" THEN ParseString(s, j + 1, <<>>) ELSE NoParse
      m == SkipWs(s, k.i)
      r == IF k.ok /\ At(s, m) = ":" THEN ParseValue(s, m + 1) ELSE NoParse
      n == SkipWs(s, r.i)
  IN  IF ~r.ok THEN NoParse
      ELSE IF At(s, n) = "," THEN ParseMembers(s, n + 1, Put(acc, k.v, r.v))
      ELSE IF At(s, n) = "}" THEN Parsed(Map(Put(acc, k.v, r.v)), n + 1)
      ELSE NoParse

\* The parse of a whole text: a value, then nothing but white space.
JSONParse(s) ==
  LET r == ParseValue(s, 1)
  IN  IF r.ok /\ SkipWs(s, r.i) = Len(s) + 1 THEN r ELSE NoParse

----------------------------------------------------------------------------
(* The built-in conversions the reviver calls.                              *)

ObjectText ==
  <<"[", "o", "b", "j", "e", "c", "t", " ", "O", "b", "j", "e", "c", "t", "]">>

\* Date.prototype.toString is implementation-defined; every implementation's
\* text starts with the name of a weekday.
DateText == <<"T", "h", "u">>

\* ToString, with Array.prototype.join for arrays.
RECURSIVE ToStringJS(_)
RECURSIVE Join(_, _)
ToStringJS(v) ==
  CASE Kind(v) = "undefined" -> <<"u", "n", "d", "e", "f", "i", "n", "e", "d">>
    [] Kind(v) = "null" -> NullText
    [] Kind(v) = "bool" -> IF v[2] THEN TrueText ELSE FalseText
    [] Kind(v) = "num" -> IntToChars(v[2])
    [] Kind(v) = "nan" -> <<"N", "a", "N">>
    [] Kind(v) = "str" -> v[2]
    [] Kind(v) = "bigint" -> BigIntToString(v)
    [] Kind(v) = "arr" -> Join(v[2], 1)
    [] Kind(v) = "date" -> DateText
    [] OTHER -> ObjectText

Join(elems, i) ==
  IF i > Len(elems) THEN <<>>
  ELSE (IF i > 1 THEN <<",">> ELSE <<>>)
         \o (IF Kind(elems[i]) \in {"null", "undefined"} THEN <<>>
             ELSE ToStringJS(elems[i]))
         \o Join(elems, i + 1)

RECURSIVE TrimLeft(_)
TrimLeft(s) == IF Len(s) > 0 /\ s[1] = " " THEN TrimLeft(Tail(s)) ELSE s

RECURSIVE TrimRight(_)
TrimRight(s) ==
  IF Len(s) > 0 /\ s[Len(s)] = " " THEN TrimRight(SubSeq(s, 1, Len(s) - 1)) ELSE s

DecimalDigits(s) == [i \in 1..Len(s) |-> DigitVal(s[i])]

Radix(ch) ==
  CASE ch \in {"x", "X"} -> 16
    [] ch \in {"o", "O"} -> 8
    [] ch \in {"b", "B"} -> 2
    [] OTHER -> 0

\* A conversion that does not trim white space.
StringToBigInt_untrimmed(str) ==
  LET signed == Len(str) > 0 /\ str[1] \in {"+", "-"}
      body == IF signed THEN Tail(str) ELSE str
  IN  IF Len(str) = 0 THEN Return(BigIntOf(FALSE, <<0>>))
      ELSE IF Len(body) > 0 /\ AllDigitsIn(body, 10)
           THEN Return(NormalBigInt(signed /\ str[1] = "-", DecimalDigits(body)))
      ELSE IF /\ Len(str) >= 3
              /\ str[1] = "0"
              /\ Radix(str[2]) > 0
              /\ AllDigitsIn(SubSeq(str, 3, Len(str)), Radix(str[2]))
           THEN Return(NumberToBigInt(CharsToNat(SubSeq(str, 3, Len(str)), Radix(str[2]))))
      ELSE Throw("SyntaxError", "BigInt")

\* StringToBigInt: white space, then nothing, a signed decimal integer or an
\* unsigned 0x, 0o or 0b literal.
StringToBigInt(str) ==
  LET s == TrimRight(TrimLeft(str))
      signed == Len(s) > 0 /\ s[1] \in {"+", "-"}
      body == IF signed THEN Tail(s) ELSE s
  IN  IF Len(s) = 0 THEN Return(BigIntOf(FALSE, <<0>>))
      ELSE IF Len(body) > 0 /\ AllDigitsIn(body, 10)
           THEN Return(NormalBigInt(signed /\ s[1] = "-", DecimalDigits(body)))
      ELSE IF /\ Len(s) >= 3
              /\ s[1] = "0"
              /\ Radix(s[2]) > 0
              /\ AllDigitsIn(SubSeq(s, 3, Len(s)), Radix(s[2]))
           THEN Return(NumberToBigInt(CharsToNat(SubSeq(s, 3, Len(s)), Radix(s[2]))))
      ELSE Throw("SyntaxError", "BigInt")

\* BigInt(value), called as a function.
BigIntCall(v) ==
  CASE Kind(v) = "bigint" -> Return(v)
    [] Kind(v) = "num" -> Return(NumberToBigInt(v[2]))
    [] Kind(v) = "nan" -> Throw("RangeError", "BigInt")
    [] Kind(v) = "bool" -> Return(BigIntOf(FALSE, <<IF v[2] THEN 1 ELSE 0>>))
    [] Kind(v) = "str" -> StringToBigInt(v[2])
    [] Kind(v) \in {"null", "undefined"} -> Throw("TypeError", "BigInt")
    [] Kind(v) = "date" ->
         IF v = UntrackedDate THEN Unspecified ELSE Return(NumberToBigInt(v[2]))
    [] OTHER -> StringToBigInt(ToStringJS(v))

IsoPrefix == <<"1", "9", "7", "0", "-", "0", "1", "-", "0", "1", "T">>

Field(s, from, width) == CharsToNat(SubSeq(s, from, from + width - 1), 10)

\* The date-time string format, for an instant of the first day of the epoch.
IsIso(s) ==
  /\ Len(s) = 24
  /\ SubSeq(s, 1, 11) = IsoPrefix
  /\ \A i \in {12, 13, 15, 16, 18, 19, 21, 22, 23} : s[i] \in DigitChars
  /\ s[14] = ":" /\ s[17] = ":" /\ s[20] = "." /\ s[24] = "Z"
  /\ Field(s, 12, 2) < 24 /\ Field(s, 15, 2) < 60 /\ Field(s, 18, 2) < 60

\* Date.parse: the time value of a date-time string; what any other string
\* gives (NaN, or a time by an implementation's fallback) is not tracked.
ParseDate(s) ==
  IF IsIso(s)
  THEN DateOf(((Field(s, 12, 2) * 60 + Field(s, 15, 2)) * 60 + Field(s, 18, 2)) * 1000
              + Field(s, 21, 3))
  ELSE UntrackedDate

\* new Date(value).
DateConstruct(v) ==
  CASE Kind(v) = "date" -> Return(v)
    [] Kind(v) = "str" -> Return(ParseDate(v[2]))
    [] Kind(v) = "num" -> Return(DateOf(v[2]))
    [] Kind(v) = "bool" -> Return(DateOf(IF v[2] THEN 1 ELSE 0))
    [] Kind(v) = "null" -> Return(DateOf(0))
    [] Kind(v) \in {"undefined", "nan"} -> Return(UntrackedDate)
    [] Kind(v) = "bigint" -> Throw("TypeError", "Date")
    [] OTHER -> Return(ParseDate(ToStringJS(v)))

----------------------------------------------------------------------------
(* deserialize: JSON.parse with the reviver of utils.ts.                    *)

\* An envelope test without the count of the keys.
IsEnvelope_anyLength(v) ==
  /\ Kind(v) = "map"
  /\ \A i \in 1..Len(v[2]) : v[2][i][1] \in {VALUE_KEY, TYPE_KEY}

\* Object.keys(value).length === 2 &&
\* Object.keys(value).every((key) => ["value", TYPE_KEY].includes(key)),
\* for a non-null object; the keys of an array are its indices.
IsEnvelope(v) ==
  /\ Kind(v) = "map"
  /\ Len(v[2]) = 2
  /\ \A i \in 1..Len(v[2]) : v[2][i][1] \in {VALUE_KEY, TYPE_KEY}

\* The reviver, called on a node whose members have been revived.
Reviver(v) ==
  IF IsEnvelope(v)
  THEN CASE Get(v[2], TYPE_KEY) = Str(BIGINT) -> BigIntCall(Get(v[2], VALUE_KEY))
         [] Get(v[2], TYPE_KEY) = Str(DATE) -> DateConstruct(Get(v[2], VALUE_KEY))
         [] OTHER -> Return(v)
  ELSE Return(v)

RECURSIVE InternalizeJSONProperty(_)
RECURSIVE InternalizeElements(_, _, _)
RECURSIVE InternalizeMembers(_, _, _)

\* InternalizeJSONProperty: the members in order, then the node itself; the
\* first call that does not return ends the walk.
InternalizeJSONProperty(v) ==
  CASE Kind(v) = "arr" -> InternalizeElements(v[2], 1, <<>>)
    [] Kind(v) = "map" -> InternalizeMembers(v[2], 1, <<>>)
    [] OTHER -> Reviver(v)

InternalizeElements(elems, i, acc) ==
  IF i > Len(elems) THEN Reviver(Arr(acc))
  ELSE LET r == InternalizeJSONProperty(elems[i])
       IN  IF r[1] # "return" THEN r
           ELSE InternalizeElements(elems, i + 1, Append(acc, r[2]))

InternalizeMembers(pairs, i, acc) ==
  IF i > Len(pairs) THEN Reviver(Map(acc))
  ELSE LET r == InternalizeJSONProperty(pairs[i][2])
       IN  IF r[1] # "return" THEN r
           ELSE InternalizeMembers(pairs, i + 1, Append(acc, <<pairs[i][1], r[2]>>))

\* A deserialize that turns a parse error into null.
deserialize_swallow(valueToDeserialize) ==
  LET r == JSONParse(decode(valueToDeserialize))
  IN  IF r.ok THEN InternalizeJSONProperty(r.v) ELSE Return(Null)

deserialize(valueToDeserialize) ==
  LET r == JSONParse(decode(valueToDeserialize))
  IN  IF r.ok THEN InternalizeJSONProperty(r.v)
      ELSE Throw("SyntaxError", "JSON.parse")

----------------------------------------------------------------------------
(* The retrieval facade.                                                    *)

\* null in place of a Uint8Array: a sequence that is no byte sequence.
Absent == <<-1>>

\* A missing field of an options object reads as undefined.  given is FALSE
\* when the caller passes no options argument at all.

NoOptions ==
  [given |-> FALSE, defaultValue |-> Undefined, reconstructor |-> "none",
   deserializer |-> "none", serializer |-> "none"]

\* A caller's reconstructor: it wraps the decoded fields in a class instance.
Reconstruct(d) == Instance(d)

\* A caller's deserializer: it returns the stored text as a string.
CustomDeserialize(b) == Return(Str(decode(b)))

\* A caller's serializer: it stores the value's string form.
CustomSerialize(v) == Return(encode(ToStringJS(v)))

\* options?.defaultValue ?? null
DefaultOrNull(opts) ==
  IF Kind(opts.defaultValue) \in {"undefined", "null"} THEN Null ELSE opts.defaultValue

Outcome(r, log) == [result |-> r, invoked |-> log]

\* The parameter options = { deserializer: deserialize }.
DefaultGetOptions == [NoOptions EXCEPT !.deserializer = "deserialize"]

\* A facade that reconstructs before it looks for null.
getValueWithOptions_reconstructFirst(value, options) ==
  LET opts == IF options.given THEN options ELSE DefaultGetOptions
      deserialized == deserialize(value)
  IN  IF value = Absent THEN Outcome(Return(DefaultOrNull(opts)), <<>>)
      ELSE IF deserialized[1] # "return" THEN Outcome(deserialized, <<>>)
      ELSE IF opts.reconstructor # "none"
           THEN Outcome(Return(Reconstruct(deserialized[2])),
                        << <<"reconstructor", deserialized[2]>> >>)
      ELSE IF Kind(deserialized[2]) \in {"undefined", "null"}
           THEN Outcome(Return(DefaultOrNull(opts)), <<>>)
      ELSE Outcome(deserialized, <<>>)

\* A facade that substitutes the default for every falsy decoded value.
getValueWithOptions_falsyDefault(value, options) ==
  LET opts == IF options.given THEN options ELSE DefaultGetOptions
      deserialized == deserialize(value)
  IN  IF value = Absent THEN Outcome(Return(DefaultOrNull(opts)), <<>>)
      ELSE IF deserialized[1] # "return" THEN Outcome(deserialized, <<>>)
      ELSE IF ~Truthy(deserialized[2])
           THEN Outcome(Return(DefaultOrNull(opts)), <<>>)
      ELSE IF opts.reconstructor # "none"
           THEN Outcome(Return(Reconstruct(deserialized[2])),
                        << <<"reconstructor", deserialized[2]>> >>)
      ELSE Outcome(deserialized, <<>>)

getValueWithOptions(value, options) ==
  LET opts == IF options.given THEN options ELSE DefaultGetOptions
      deserialized == deserialize(value)
  IN  IF value = Absent THEN Outcome(Return(DefaultOrNull(opts)), <<>>)
      ELSE IF  deserialized[1] # "return" THEN Outcome(deserialized, <<>>)
      ELSE IF Kind(deserialized[2]) \in {"undefined", "null"}
           THEN Outcome(Return(DefaultOrNull(opts)), <<>>)
      ELSE IF opts.reconstructor # "none"
           THEN Outcome(Return(Reconstruct(deserialized[2])),
                        << <<"reconstructor", deserialized[2]>> >>)
      ELSE Outcome(deserialized, <<>>)

\* The parameter { serializer } = { serializer: serialize }: the default
\* stands in for a missing argument only, and calling undefined throws.
serializeValueWithOptions(value, options) ==
  LET serializer == IF options.given THEN options.serializer ELSE "serialize"
  IN  CASE serializer = "serialize" -> Outcome(serialize(value), <<>>)
        [] serializer = "custom" ->
             Outcome(CustomSerialize(value), << <<"serializer", value>> >>)
        [] OTHER -> Outcome(Throw("TypeError", "serializer is not a function"), <<>>)

----------------------------------------------------------------------------
(* validateAccountId: RegExp.prototype.test on ACCOUNT_ID_REGEX.            *)

Class(chars) == <<"class", chars>>
Cat(parts) == <<"cat", parts>>
Star(re) == <<"star", re>>
Plus(re) == <<"plus", re>>

RECURSIVE Ends(_, _, _)
RECURSIVE EndsOfCat(_, _, _, _)
RECURSIVE Closure(_, _, _)

\* The positions of s where a match of re can end when it starts at one of
\* the positions of from (a position is the number of characters before it).
Ends(re, s, from) ==
  CASE re[1] = "class" -> {p + 1 : p \in {q \in from : q < Len(s) /\ s[q + 1] \in re[2]}}
    [] re[1] = "cat" -> EndsOfCat(re[2], 1, s, from)
    [] re[1] = "star" -> Closure(re[2], s, from)
    [] re[1] = "plus" -> Closure(re[2], s, Ends(re[2], s, from))

EndsOfCat(parts, i, s, from) ==
  IF i > Len(parts) \/ from = {} THEN from
  ELSE EndsOfCat(parts, i + 1, s, Ends(parts[i], s, from))

Closure(re, s, from) ==
  LET more == Ends(re, s, from) \ from
  IN  IF more = {} THEN from ELSE Closure(re, s, from \cup more)

\* ^re$ without flags.
Test(re, s) == Len(s) \in Ends(re, s, {0})

AlphaNum == Class(LowerChars \cup DigitChars)

ACCOUNT_ID_REGEX ==
  Cat(<< Star(Cat(<< Star(Cat(<<Plus(AlphaNum), Class({"-", "_"})>>)),
                     Plus(AlphaNum),
                     Class({"."}) >>)),
         Star(Cat(<<Plus(AlphaNum), Class({"-", "_"})>>)),
         Plus(AlphaNum) >>)

MIN_ACCOUNT_ID_LEN == 2
MAX_ACCOUNT_ID_LEN == 64

\* A validator whose upper bound is exclusive.
validateAccountId_exclusiveMax(accountId) ==
  /\ Len(accountId) >= MIN_ACCOUNT_ID_LEN
  /\ Len(accountId) < MAX_ACCOUNT_ID_LEN
  /\ Test(ACCOUNT_ID_REGEX, accountId)

validateAccountId(accountId) ==
  /\ Len(accountId) >= MIN_ACCOUNT_ID_LEN
  /\ Len(accountId) <= MAX_ACCOUNT_ID_LEN
  /\ Test(ACCOUNT_ID_REGEX, accountId)

----------------------------------------------------------------------------
(* assert.                                                                  *)

AssertionFailed ==
  <<"a", "s", "s", "e", "r", "t", "i", "o", "n", " ",
    "f", "a", "i", "l", "e", "d", ":", " ">>

\* An assert that throws the bare message.
assert_bareMessage(expression, message) ==
  IF ~Truthy(expression)
  THEN Throw("Error", message)
  ELSE Return(Undefined)

assert(expression, message) ==
  IF ~Truthy(expression)
  THEN Throw("Error", AssertionFailed \o message)
  ELSE Return(Undefined)

----------------------------------------------------------------------------
(* The calls explored.                                                      *)

MaxLen == 2
MaxWrap == 2
MaxIdLen == 3

A_KEY == <<"a">>

BigValue ==
  BigIntOf(FALSE, <<1, 8, 4, 4, 6, 7, 4, 4, 0, 7, 3, 7, 0, 9, 5, 5, 1, 6, 1, 6>>)

Atoms ==
  { Null, Bool(TRUE), Num(7), Str(<<"1">>), Str(BIGINT), BigValue, DateOf(61001) }

OtherAtoms ==
  { Bool(FALSE), Num(0), Num(-30), NaN, Str(<<>>), Str(<<"q", "\"", "\\">>),
    Str(DATE), Str(ToISOString(5)), BigIntOf(FALSE, <<0>>),
    BigIntOf(TRUE, <<9, 0, 0, 7, 1, 9, 9, 2, 5, 4, 7, 4, 0, 9, 9, 3>>),
    DateOf(0), DateOf(86399999) }

SeqsUpTo(S, n) == UNION {[1..k -> S] : k \in 0..n}

KeyOrders ==
  { <<>>, <<VALUE_KEY>>, <<TYPE_KEY>>, <<A_KEY>>,
    <<VALUE_KEY, TYPE_KEY>>, <<TYPE_KEY, VALUE_KEY>>, <<VALUE_KEY, A_KEY>>,
    <<TYPE_KEY, A_KEY>>,
    <<VALUE_KEY, TYPE_KEY, A_KEY>>, <<A_KEY, TYPE_KEY, VALUE_KEY>> }

MapsOver(S) ==
  UNION { { Map([i \in 1..Len(ks) |-> <<ks[i], m[i]>>]) : m \in [1..Len(ks) -> S] }
          : ks \in KeyOrders }

Wrappings(x) ==
  { Arr(<<x>>),
    Map(<< <<A_KEY, x>> >>),
    Map(<< <<VALUE_KEY, x>>, <<TYPE_KEY, Str(BIGINT)>> >>),
    Map(<< <<TYPE_KEY, Str(DATE)>>, <<VALUE_KEY, x>> >>) }

RECURSIVE Wrapped(_)
Wrapped(n) ==
  IF n = 0 THEN Atoms
  ELSE Wrapped(n - 1) \cup UNION {Wrappings(x) : x \in Wrapped(n - 1)}

\* Strings BigInt accepts, each with the integer it stands for.
IntegerTexts ==
  { <<<<"1">>, BigIntOf(FALSE, <<1>>)>>,
    <<<<"-", "1", "2">>, BigIntOf(TRUE, <<1, 2>>)>>,
    <<<<"+", "3">>, BigIntOf(FALSE, <<3>>)>>,
    <<<<"0", "0", "7">>, BigIntOf(FALSE, <<7>>)>>,
    <<<<"-", "0">>, BigIntOf(FALSE, <<0>>)>>,
    <<<<>>, BigIntOf(FALSE, <<0>>)>>,
    <<<<" ", "5", " ">>, BigIntOf(FALSE, <<5>>)>>,
    <<<<"0", "x", "1", "F">>, BigIntOf(FALSE, <<3, 1>>)>>,
    <<<<"0", "b", "1", "0", "1">>, BigIntOf(FALSE, <<5>>)>>,
    <<<<"1", "8", "4", "4", "6", "7", "4", "4", "0", "7", "3", "7", "0", "9",
        "5", "5", "1", "6", "1", "6">>, BigValue>> }

\* Strings BigInt rejects.
NonIntegerTexts ==
  { <<"a">>, BIGINT, <<"1", ".", "5">>, <<"1", "e", "3">>, <<"-", "-", "1">>,
    <<"1", " ", "2">>, <<"0", "x">>, <<"-", "0", "x", "1">>, <<"0", "b", "2">>,
    <<"1", "n">>, <<"+">>, ToISOString(5) }

EnvelopeTexts == {p[1] : p \in IntegerTexts} \cup NonIntegerTexts

\* The values given to serialize.
Values ==
  Atoms \cup OtherAtoms
    \cup {Map(<< <<VALUE_KEY, Str(x)>>, <<TYPE_KEY, Str(BIGINT)>> >>) : x \in EnvelopeTexts}
    \cup {Arr(e) : e \in SeqsUpTo(Atoms, MaxLen)}
    \cup MapsOver(Atoms)
    \cup Wrapped(MaxWrap)

\* Texts that are not JSON, written out.
BrokenTexts ==
  { <<>>, <<" ">>, <<"{">>, <<"}">>, <<"[", "1", ",">>, <<"[", "1", ",", "]">>,
    <<"[", "1", " ", "2", "]">>, <<"[", "]", "]">>, <<"t", "r", "u">>,
    <<"n", "u", "l", "l", "x">>, <<"N", "a", "N">>, <<"0", "1">>, <<"-">>,
    <<"1", " ", "2">>, <<"\"", "q">>, <<"'", "q", "'">>,
    <<"{", "\"", "a", "\"", "}">>, <<"{", "a", ":", "1", "}">>,
    <<"{", "\"", "a", "\"", ":", "1", ",", "}">>,
    <<"{", "\"", "a", "\"", ":", "1", " ", "\"", "b", "\"", ":", "2", "}">>,
    <<"{", "\"", "a", "\"", ":", "}">>, <<"u", "n", "d", "e", "f", "i", "n", "e", "d">> }

TextOf(v) == decode(serialize(v)[2])

ProperPrefixes(t) == {SubSeq(t, 1, k) : k \in 1..(Len(t) - 1)}

\* A proper prefix of a JSON text that is not a number is not a JSON text.
TruncatedTexts ==
  UNION { ProperPrefixes(TextOf(v)) : v \in {w \in Wrapped(1) : Kind(w) # "num"} }

MalformedTexts == BrokenTexts \cup TruncatedTexts

Envelope(x, tag) == Map(<< <<VALUE_KEY, x>>, <<TYPE_KEY, Str(tag)>> >>)

\* JSON texts no call of serialize writes: white space, a repeated key, -0.
SpacedTexts ==
  { <<" ">> \o TextOf(Arr(<<Num(7), Null>>)) \o <<" ">>,
    <<"[", " ", "]">>, <<"{", " ", "}">>, <<"-", "0">>,
    <<"{", " ">> \o Quote(VALUE_KEY) \o <<" ", ":", " ">> \o Quote(<<"1", "2">>)
       \o <<" ", ",", " ">> \o Quote(TYPE_KEY) \o <<":">> \o Quote(BIGINT) \o <<" ", "}">>,
    <<"{">> \o Quote(VALUE_KEY) \o <<":", "1", ",">> \o Quote(VALUE_KEY) \o <<":", "2", "}">>,
    <<"{">> \o Quote(VALUE_KEY) \o <<":", "1", ",">> \o Quote(TYPE_KEY) \o <<":">>
       \o Quote(<<"x">>) \o <<",">> \o Quote(TYPE_KEY) \o <<":">> \o Quote(DATE) \o <<"}">>,
    <<"{">> \o Quote(A_KEY) \o <<":", "1", ",">> \o Quote(TYPE_KEY) \o <<":">>
       \o Quote(BIGINT) \o <<",">> \o Quote(A_KEY) \o <<":", "2", "}">> }

\* The bytes given to deserialize directly.
RawBytes == {encode(t) : t \in MalformedTexts \cup SpacedTexts}

\* What getValueWithOptions is given: nothing, stored values, broken texts.
StoredValues ==
  { Null, Bool(FALSE), Num(0), Str(<<>>), Num(7), Str(<<"1">>), Arr(<<>>),
    Map(<< <<A_KEY, Num(1)>> >>), BigValue, DateOf(61001),
    Envelope(Str(<<"a">>), BIGINT), Envelope(Null, DATE) }

GetBytes ==
  {Absent} \cup {serialize(v)[2] : v \in StoredValues}
    \cup {encode(t) : t \in BrokenTexts}

GetOptions ==
  {NoOptions} \cup
  [ given : {TRUE},
    defaultValue : {Undefined, Null, Num(0), Str(<<"d">>)},
    reconstructor : {"none", "reconstructor"},
    deserializer : {"none", "deserialize", "custom"},
    serializer : {"none"} ]

SerializeOptions ==
  {NoOptions} \cup
  [ given : {TRUE},
    defaultValue : {Undefined, Num(0)},
    reconstructor : {"none"},
    deserializer : {"none"},
    serializer : {"none", "serialize", "custom"} ]

IdAlphabet == {"a", "1", "-", "_", ".", "A"}

RECURSIVE Repeat(_, _)
Repeat(s, n) == IF n = 0 THEN <<>> ELSE s \o Repeat(s, n - 1)

\* Account ids around the upper length bound.
LongIds ==
  UNION { { Repeat(<<"a">>, n),
            Repeat(<<"a">>, n - 2) \o <<".", "a">>,
            Repeat(<<"a", "-">>, n \div 2) \o Repeat(<<"1">>, n % 2),
            Repeat(<<"a">>, n - 1) \o <<".">>,
            Repeat(<<"a">>, n - 2) \o <<"_", "_">>,
            <<"A">> \o Repeat(<<"a">>, n - 1) }
          : n \in (MAX_ACCOUNT_ID_LEN - 2)..(MAX_ACCOUNT_ID_LEN + 2) }

\* Account ids of everyday shape.
NamedIds ==
  { <<"a", "l", "i", "c", "e", ".", "n", "e", "a", "r">>,
    <<"A", "l", "i", "c", "e", ".", "n", "e", "a", "r">>,
    <<"a", ".", ".", "b">>,
    <<"a", "-", "b", "_", "1", ".", "c", "0">>,
    <<"a", "-", "_", "b">>,
    <<"a", "b", " ", "c">> }

AccountIds == SeqsUpTo(IdAlphabet, MaxIdLen) \cup LongIds \cup NamedIds

Expressions ==
  { Undefined, Null, NaN, Bool(FALSE), Bool(TRUE), Num(0), Num(7), Num(-30),
    Str(<<>>), Str(<<"0">>), Str(<<" ">>), BigIntOf(FALSE, <<0>>), BigValue,
    Arr(<<>>), Map(<<>>), DateOf(0), UntrackedDate, Instance(Null) }

ERR_INDEX_OUT_OF_BOUNDS ==
  <<"I", "n", "d", "e", "x", " ", "o", "u", "t", " ", "o", "f", " ",
    "b", "o", "u", "n", "d", "s">>

Messages == { <<>>, <<"m">>, ERR_INDEX_OUT_OF_BOUNDS }

----------------------------------------------------------------------------
(* The state machine: one call, chosen with its arguments, then its steps.  *)

NoResult == <<"none">>

Init ==
  /\ pc = "start"
  /\ result = NoResult
  /\ invoked = <<>>
  /\ \/ /\ call = "serialize"
        /\ argValue \in Values
        /\ argBytes = Absent /\ argOptions = NoOptions /\ argText = <<>>
     \/ /\ call = "deserialize"
        /\ argBytes \in RawBytes
        /\ argValue = Undefined /\ argOptions = NoOptions /\ argText = <<>>
     \/ /\ call = "getValueWithOptions"
        /\ argBytes \in GetBytes
        /\ argOptions \in GetOptions
        /\ argValue = Undefined /\ argText = <<>>
     \/ /\ call = "serializeValueWithOptions"
        /\ argValue \in Atoms
        /\ argOptions \in SerializeOptions
        /\ argBytes = Absent /\ argText = <<>>
     \/ /\ call = "validateAccountId"
        /\ argText \in AccountIds
        /\ argValue = Undefined /\ argBytes = Absent /\ argOptions = NoOptions
     \/ /\ call = "assert"
        /\ argValue \in Expressions
        /\ argText \in Messages
        /\ argBytes = Absent /\ argOptions = NoOptions

\* serialize(argValue); the bytes it returns are what is stored.
Serialize ==
  /\ call = "serialize" /\ pc = "start"
  /\ LET r == serialize(argValue)
     IN  /\ result' = r
         /\ argBytes' = IF r[1] = "return" THEN r[2] ELSE argBytes
         /\ pc' = IF r[1] = "return" THEN "stored" ELSE "done"
  /\ UNCHANGED <<call, argValue, argOptions, argText, invoked>>

\* deserialize(argBytes), on bytes given by the caller or stored by serialize.
Deserialize ==
  /\ \/ call = "deserialize" /\ pc = "start"
     \/ call = "serialize" /\ pc = "stored"
  /\ result' = deserialize(argBytes)
  /\ pc' = "done"
  /\ UNCHANGED <<call, argValue, argBytes, argOptions, argText, invoked>>

GetValueWithOptions ==
  /\ call = "getValueWithOptions" /\ pc = "start"
  /\ LET o == getValueWithOptions(argBytes, argOptions)
     IN  result' = o.result /\ invoked' = o.invoked
  /\ pc' = "done"
  /\ UNCHANGED <<call, argValue, argBytes, argOptions, argText>>

SerializeValueWithOptions ==
  /\ call = "serializeValueWithOptions" /\ pc = "start"
  /\ LET o == serializeValueWithOptions(argValue, argOptions)
     IN  result' = o.result /\ invoked' = o.invoked
  /\ pc' = "done"
  /\ UNCHANGED <<call, argValue, argBytes, argOptions, argText>>

ValidateAccountId ==
  /\ call = "validateAccountId" /\ pc = "start"
  /\ result' = Return(Bool(validateAccountId(argText)))
  /\ pc' = "done"
  /\ UNCHANGED <<call, argValue, argBytes, argOptions, argText, invoked>>

CallAssert ==
  /\ call = "assert" /\ pc = "start"
  /\ result' = assert(argValue, argText)
  /\ pc' = "done"
  /\ UNCHANGED <<call, argValue, argBytes, argOptions, argText, invoked>>

Next ==
  \/ Serialize
  \/ Deserialize
  \/ GetValueWithOptions
  \/ SerializeValueWithOptions
  \/ ValidateAccountId
  \/ CallAssert

Spec == Init /\ [][Next]_vars

----------------------------------------------------------------------------
(* Properties.                                                              *)

\* A value the wire format can express: no undefined, no non-finite number,
\* no timestamp without a time value, no class instance.
RECURSIVE Supported(_)
Supported(v) ==
  CASE Kind(v) \in {"null", "bool", "num", "str", "bigint"} -> TRUE
    [] Kind(v) = "date" -> v # UntrackedDate
    [] Kind(v) = "arr" -> \A i \in 1..Len(v[2]) : Supported(v[2][i])
    [] Kind(v) = "map" -> \A i \in 1..Len(v[2]) : Supported(v[2][i][2])
    [] OTHER -> FALSE

\* A mapping with exactly the keys "value" and "typeInfo" whose typeInfo is
\* the string "bigint" or "date".
LooksTagged(v) ==
  /\ Kind(v) = "map"
  /\ Len(v[2]) = 2
  /\ KeySet(v[2]) = {VALUE_KEY, TYPE_KEY}
  /\ \/ Get(v[2], TYPE_KEY) = Str(BIGINT)
     \/ Get(v[2], TYPE_KEY) = Str(DATE)

RECURSIVE NoTaggedLookalike(_)
NoTaggedLookalike(v) ==
  CASE Kind(v) = "arr" -> \A i \in 1..Len(v[2]) : NoTaggedLookalike(v[2][i])
    [] Kind(v) = "map" ->
         /\ ~LooksTagged(v)
         /\ \A i \in 1..Len(v[2]) : NoTaggedLookalike(v[2][i][2])
    [] OTHER -> TRUE

RoundTripDone == call = "serialize" /\ pc = "done"

\* C1 as stated: deserialize(serialize(v)) equals v for every supported
\* value v, mappings with exactly the keys "value" and "typeInfo" included.
C1_RoundTripOfEveryValue ==
  (RoundTripDone /\ Supported(argValue)) => result = Return(argValue)

\* C1, amended: deserialize(serialize(v)) equals v, extended types included,
\* for every supported value v that holds no mapping with exactly the keys
\* "value" and "typeInfo" whose typeInfo is the string "bigint" or "date".
C1_RoundTrip ==
  (RoundTripDone /\ Supported(argValue) /\ NoTaggedLookalike(argValue))
    => result = Return(argValue)

C1_Witness ==
  /\ RoundTripDone
  /\ argValue = Map(<< <<A_KEY, Arr(<<BigValue>>)>> >>)
  /\ result = Return(argValue)

\* What steps 3 to 5 of the facade give for a decoding outcome.
Finished(decoded, opts) ==
  IF decoded[1] # "return" THEN decoded
  ELSE IF Kind(decoded[2]) \in {"undefined", "null"}
       THEN Return(IF Kind(opts.defaultValue) = "undefined" THEN Null
                   ELSE opts.defaultValue)
  ELSE IF opts.reconstructor # "none" THEN Return(Instance(decoded[2]))
  ELSE decoded

GetDone == call = "getValueWithOptions" /\ pc = "done"

\* C2 as stated: with present bytes and a deserializer in the options, what
\* getValueWithOptions defaults, reconstructs or returns is
\* options.deserializer(bytes), not deserialize(bytes).
C2_UsesOptionsDeserializer ==
  (GetDone /\ argBytes # Absent /\ argOptions.deserializer = "custom")
    => result = Finished(CustomDeserialize(argBytes), argOptions)

NullDecoded(b) ==
  \/ b = Absent
  \/ LET d == deserialize(b)
     IN  d[1] = "return" /\ Kind(d[2]) \in {"undefined", "null"}

\* C3: when the bytes are absent or decode to null or undefined, the result
\* is options.defaultValue if present and null otherwise, and the
\* reconstructor is not invoked; the reconstructor is never called with
\* null or undefined.
C3_DefaultBeforeReconstruct ==
  GetDone =>
    /\ NullDecoded(argBytes) =>
         /\ result = Return(IF Kind(argOptions.defaultValue) = "undefined"
                            THEN Null ELSE argOptions.defaultValue)
         /\ invoked = <<>>
    /\ \A i \in 1..Len(invoked) :
         invoked[i][1] = "reconstructor"
           => Kind(invoked[i][2]) \notin {"undefined", "null"}

C3_Witness ==
  /\ GetDone
  /\ argBytes = encode(NullText)
  /\ argOptions.defaultValue = Str(<<"d">>)
  /\ argOptions.reconstructor = "reconstructor"
  /\ result = Return(Str(<<"d">>))

\* C4: when the bytes are present and decode to a value d that is neither
\* null nor undefined, the result is options.reconstructor(d) if there is a
\* reconstructor and d otherwise, whatever options.defaultValue is.
C4_ReconstructorComposition ==
  (GetDone /\ argBytes # Absent /\ ~NullDecoded(argBytes)
     /\ deserialize(argBytes)[1] = "return")
    => LET d == deserialize(argBytes)[2]
       IN  IF argOptions.reconstructor # "none"
           THEN /\ result = Return(Instance(d))
                /\ invoked = << <<"reconstructor", d>> >>
           ELSE result = Return(d) /\ invoked = <<>>

C4_Witness ==
  /\ GetDone
  /\ argBytes = encode(<<"0">>)
  /\ argOptions.defaultValue = Str(<<"d">>)
  /\ argOptions.reconstructor = "reconstructor"
  /\ result = Return(Instance(Num(0)))

\* C5 as stated: serializeValueWithOptions returns options.serializer(value)
\* when the options carry a serializer and serialize(value) in every other
\* case, an options object without a serializer included; it never fails for
\* lack of a serializer.
C5_DefaultSerializerWheneverMissing ==
  (call = "serializeValueWithOptions" /\ pc = "done")
    => result = IF argOptions.given /\ argOptions.serializer = "custom"
                THEN CustomSerialize(argValue)
                ELSE serialize(argValue)

\* The root of the text deserialize was given, when it is a mapping all of
\* whose members revive.
DeserializeDone ==
  /\ call \in {"serialize", "deserialize"}
  /\ pc = "done"
  /\ argBytes # Absent

ParsedRoot == JSONParse(decode(argBytes))

MembersRevive(pairs) ==
  \A i \in 1..Len(pairs) : InternalizeJSONProperty(pairs[i][2])[1] = "return"

RevivedNode(pairs) ==
  Map([i \in 1..Len(pairs) |->
         <<pairs[i][1], InternalizeJSONProperty(pairs[i][2])[2]>>])

MappingDecoded ==
  /\ DeserializeDone
  /\ ParsedRoot.ok
  /\ Kind(ParsedRoot.v) = "map"
  /\ MembersRevive(ParsedRoot.v[2])

Replaced == result[1] = "return" /\ Kind(result[2]) \in {"bigint", "date"}

ConversionFailed ==
  \/ result = Unspecified
  \/ result[1] = "throw" /\ result[3] \in {"BigInt", "Date"}

\* C6 as stated: a decoded mapping is replaced by an extended-type value if
\* and only if it has exactly the keys "value" and "typeInfo" and its
\* typeInfo is "bigint" or "date"; every other mapping is returned with its
\* keys and members unchanged.
C6_ReplacedIffTagged ==
  MappingDecoded =>
    LET node == RevivedNode(ParsedRoot.v[2])
    IN  IF LooksTagged(node) THEN Replaced ELSE result = Return(node)

\* C6, amended: a decoded mapping is replaced by an extended-type value, or
\* the decode fails with the error of converting its value member, if and
\* only if it has exactly the keys "value" and "typeInfo" and its typeInfo is
\* "bigint" or "date"; every other mapping is returned with its keys and
\* members unchanged, an unrecognized tag raising no error.
C6_EnvelopeRecognition ==
  MappingDecoded =>
    LET node == RevivedNode(ParsedRoot.v[2])
    IN  IF LooksTagged(node)
        THEN \/ /\ Replaced
                /\ Kind(result[2]) =
                     (IF Get(node[2], TYPE_KEY) = Str(BIGINT) THEN "bigint" ELSE "date")
             \/ ConversionFailed
        ELSE result = Return(node)

C6_Witness ==
  /\ MappingDecoded
  /\ KeySet(ParsedRoot.v[2]) = {VALUE_KEY, TYPE_KEY, A_KEY}
  /\ Get(ParsedRoot.v[2], TYPE_KEY) = Str(BIGINT)
  /\ result = Return(ParsedRoot.v)

\* The grammar of an account id, label by label.
RECURSIVE SplitFrom(_, _, _, _, _)
SplitFrom(s, seps, i, cur, acc) ==
  IF i > Len(s) THEN Append(acc, cur)
  ELSE IF s[i] \in seps THEN SplitFrom(s, seps, i + 1, <<>>, Append(acc, cur))
  ELSE SplitFrom(s, seps, i + 1, Append(cur, s[i]), acc)

Split(s, seps) == SplitFrom(s, seps, 1, <<>>, <<>>)

IsRun(r) == Len(r) >= 1 /\ \A i \in 1..Len(r) : r[i] \in LowerChars \cup DigitChars

IsLabel(l) == \A r \in {Split(l, {"-", "_"})[i] : i \in 1..Len(Split(l, {"-", "_"}))} : IsRun(r)

IsAccountGrammar(s) ==
  \A l \in {Split(s, {"."})[i] : i \in 1..Len(Split(s, {"."}))} : IsLabel(l)

\* C7: validateAccountId(s) is true if and only if s has 2 to 64 characters
\* and is a dot-separated list of non-empty labels, each one or more runs of
\* lowercase letters and digits joined by single "-" or "_".
C7_AccountIdGrammar ==
  (call = "validateAccountId" /\ pc = "done")
    => result = Return(Bool(/\ Len(argText) >= 2
                            /\ Len(argText) <= 64
                            /\ IsAccountGrammar(argText)))

C7_Witness ==
  /\ call = "validateAccountId" /\ pc = "done"
  /\ Len(argText) = 65
  /\ IsAccountGrammar(argText)
  /\ result = Return(Bool(FALSE))

\* C8: deserialize fails with a parse error on bytes that are not JSON text,
\* and getValueWithOptions given such bytes fails with the same error for
\* every options value, returning neither options.defaultValue nor null.
C8_ParseErrorPropagates ==
  (/\ pc = "done"
   /\ call \in {"deserialize", "getValueWithOptions"}
   /\ argBytes \in {encode(t) : t \in MalformedTexts})
    => result = Throw("SyntaxError", "JSON.parse") /\ invoked = <<>>

C8_Witness ==
  /\ GetDone
  /\ argBytes = encode(<<"[", "1", ",">>)
  /\ argOptions.defaultValue = Str(<<"d">>)
  /\ argOptions.deserializer = "custom"
  /\ result = Throw("SyntaxError", "JSON.parse")

Falsy ==
  { Undefined, Null, NaN, Bool(FALSE), Num(0), Str(<<>>), BigIntOf(FALSE, <<0>>) }

\* C9: assert fails with an error whose message is "assertion failed: "
\* followed by message when expression is falsy, and returns normally with
\* no other effect when it is truthy.
C9_Assert ==
  (call = "assert" /\ pc = "done")
    => /\ invoked = <<>>
       /\ IF argValue \in Falsy
          THEN result = Throw("Error",
                 <<"a", "s", "s", "e", "r", "t", "i", "o", "n", " ",
                   "f", "a", "i", "l", "e", "d", ":", " ">> \o argText)
          ELSE result = Return(Undefined)

C9_Witness ==
  /\ call = "assert" /\ pc = "done"
  /\ argValue = Str(<<>>)
  /\ argText = <<"m">>
  /\ result = Throw("Error", AssertionFailed \o <<"m">>)

TaggedString ==
  /\ RoundTripDone
  /\ Kind(argValue) = "map"
  /\ Len(argValue[2]) = 2
  /\ KeySet(argValue[2]) = {VALUE_KEY, TYPE_KEY}
  /\ Get(argValue[2], TYPE_KEY) = Str(BIGINT)
  /\ Kind(Get(argValue[2], VALUE_KEY)) = "str"

\* C10 as stated: for a plain mapping {"value": x, "typeInfo": "bigint"} and
\* any string x, deserialize of its serialized bytes completes and returns an
\* arbitrary-precision integer.
C10_AnyStringBecomesInteger ==
  TaggedString => result[1] = "return" /\ Kind(result[2]) = "bigint"

\* C10, amended: for a plain mapping {"value": x, "typeInfo": "bigint"},
\* deserialize of its serialized bytes returns the arbitrary-precision
\* integer x denotes when x is a string BigInt accepts, and fails with
\* BigInt's SyntaxError for any other string x.
C10_EnvelopeAmbiguity ==
  TaggedString =>
    LET x == Get(argValue[2], VALUE_KEY)[2]
    IN  /\ x \in EnvelopeTexts
        /\ \A p \in IntegerTexts : p[1] = x => result = Return(p[2])
        /\ x \in NonIntegerTexts => result = Throw("SyntaxError", "BigInt")

C10_Witness ==
  /\ TaggedString
  /\ Get(argValue[2], VALUE_KEY) = Str(<<" ", "5", " ">>)
  /\ result = Return(BigIntOf(FALSE, <<5>>))

====
